---- MODULE Spec2Model ----
(***************************************************************************)
(* Model of the type-parameter scope validator (ValidateHintHabstrPass) of *)
(* hphp/hack/src/elab/passes/validate_hint_habstr.rs.                      *)
(*                                                                         *)
(* A hook of the pass runs to completion before the traversal engine calls *)
(* the next one.  The recursion check_tparams -> check_tparam ->           *)
(* check_tparams is unfolded into an explicit call stack so that the       *)
(* points "a parameter is bound", "a parameter is checked" and "a nested   *)
(* list returns" are states of the model.                                  *)
(*                                                                         *)
(* Names are sequences of one-character strings, so that to_lowercase and  *)
(* starts_with are computed on the characters.                             *)
(*                                                                         *)
(* The interface validator (ValidateInterfacePass of validate_interface.rs)*)
(* is a second pass without fields; its one hook is a single step that     *)
(* appends to the same kind of vector.                                     *)
(***************************************************************************)
EXTENDS Integers, Sequences, FiniteSets, TLC

VARIABLES
    tparam_info,   \* self.tparam_info : HashMap<String, (Pos, bool, TparamKind)>
    flags,         \* self.flags : Flags (set of the bits that are set)
    errs,          \* the Vec<NamingPhaseError> the running (or last) hook received
    stack,         \* call stack of check_tparams activations, top first
    pc,            \* the hook in execution; "done" when it has returned and the
                   \* engine has not yet moved on; "idle" between hooks
    elem,          \* the argument of the hook in execution (or just returned)
    ret,           \* the ControlFlow the hook returned ("none" until it returns)
    owner,         \* history, no field of the pass: the declaration hook entered
                   \* last (class, typedef, fun or method), "none" before any
    errs0,         \* history: the content of the vector when the running (or
                   \* last) hook was entered
    trace          \* history: the parameters the running (or last) hook has
                   \* bound and checked so far, in the order it did

vars == <<tparam_info, flags, errs, stack, pc, elem, ret, owner, errs0, trace>>

----------------------------------------------------------------------------
(* Bounds of the model *)

\* Largest number of type-parameter declarations (all nesting depths together)
\* in the parameter list one hook receives.
MaxParams == 2

\* The same, for the hooks of SpecTree, which start from a cleared table.
MaxDeep == 4

\* Largest numbers of trait-use clauses, member variables and methods of the
\* class-like declarations the interface validator receives.
MaxUses == 2
MaxVars == 3
MaxMethods == 2

----------------------------------------------------------------------------
(* Special names (naming_special_names_rust::typehints) *)

WILDCARD == <<"_">>
THIS == <<"t", "h", "i", "s">>

(* Flags (bitflags! Flags) *)
IN_METHOD_OR_FUN == "IN_METHOD_OR_FUN"
IN_WHERE_CONSTRAINT == "IN_WHERE_CONSTRAINT"

(* enum TparamKind *)
Concrete == "Concrete"
Higher == "Higher"

----------------------------------------------------------------------------
(* Strings *)

\* char::to_lowercase on the characters the model's names are made of
LowerChar(c) ==
    CASE c = "T" -> "t"
      [] c = "H" -> "h"
      [] c = "I" -> "i"
      [] c = "S" -> "s"
      [] c = "X" -> "x"
      [] OTHER -> c

\* str::to_lowercase
to_lowercase(s) == [k \in 1..Len(s) |-> LowerChar(s[k])]

\* str::starts_with('T')
starts_with_T(s) == Len(s) > 0 /\ s[1] = "T"

----------------------------------------------------------------------------
(* Inputs: type-parameter declarations (oxidized::aast_defs::Tparam) *)

\* A declaration without position: name, nested list, the four feature fields.
MkTparam(nm, kids) ==
    [name |-> nm, parameters |-> kids, constraints |-> <<>>,
     reified |-> "Erased", user_attributes |-> <<>>, variance |-> "Invariant"]

\* Number of declarations in a list, nested ones included
RECURSIVE Size(_)
Size(tparams) ==
    IF tparams = <<>> THEN 0
    ELSE 1 + Size(Head(tparams).parameters) + Size(Tail(tparams))

\* The lists with exactly n declarations over the names nms, every shape
RECURSIVE ListsOfSize(_, _)
ListsOfSize(n, nms) ==
    IF n = 0 THEN {<<>>}
    ELSE UNION { { <<MkTparam(nm, kids)>> \o rest :
                     nm \in nms,
                     kids \in ListsOfSize(k, nms),
                     rest \in ListsOfSize(n - 1 - k, nms) } : k \in 0..(n - 1) }

\* Source positions: declarations are numbered in source (pre-)order from p
RECURSIVE Positioned(_, _)
Positioned(tparams, p) ==
    IF tparams = <<>> THEN <<>>
    ELSE LET tp == Head(tparams)
         IN  <<[tp EXCEPT !.parameters = Positioned(tp.parameters, p + 1)]
                 @@ [pos |-> p]>>
             \o Positioned(Tail(tparams), p + 1 + Size(tp.parameters))

\* Names of the declarations the scope claims are about
ScopeNames == {<<"T">>, <<"T", "H">>, WILDCARD}

\* The parameter lists the hooks of Spec receive
ScopeLists ==
    { Positioned(l, 1) : l \in UNION { ListsOfSize(n, ScopeNames) : n \in 0..MaxParams } }

\* The hints on_ty_hint_top_down receives: Habstr(t, _) or any other Hint_
ScopeHints ==
    { [pos |-> 9, tag |-> "Habstr", name |-> nm] : nm \in ScopeNames }
      \cup { [pos |-> 9, tag |-> "Hother", name |-> <<>>] }

\* Names for the naming rules of check_tparam: the empty name, the wildcard,
\* names with and without a leading 'T', and spellings of `this`
RuleNames ==
    { <<>>, WILDCARD, <<"T">>, <<"T", "X">>, <<"X">>, <<"t">>,
      <<"T", "h", "i", "s">>, <<"t", "h", "i", "s">>, <<"T", "H", "I", "S">>,
      <<"t", "H", "i", "S">>, <<"T", "h", "i">> }

\* The parameter lists the hooks of SpecNames receive: one declaration of each
\* name, concrete or higher-kinded, at top level or nested in a parameter TH
NameLists ==
    UNION { { Positioned(<<MkTparam(nm, <<>>)>>, 1),
              Positioned(<<MkTparam(nm, <<MkTparam(<<"T">>, <<>>)>>)>>, 1),
              Positioned(<<MkTparam(<<"T", "H">>, <<MkTparam(nm, <<>>)>>)>>, 1),
              Positioned(<<MkTparam(<<"T", "H">>,
                                    <<MkTparam(nm, <<MkTparam(<<"T">>, <<>>)>>)>>)>>, 1) }
            : nm \in RuleNames }

\* The values of the four feature fields of a declaration: constraints (a
\* vector), reified (enum ReifyKind), user_attributes (a vector) and variance
\* (enum Variance)
FeatureValues ==
    [constraints : {<<>>, <<"Constraint_as">>},
     reified : {"Erased", "SoftReified", "Reified"},
     user_attributes : {<<>>, <<"__Attr">>},
     variance : {"Invariant", "Covariant", "Contravariant"}]

\* The declaration tp with the feature fields f
WithFeatures(tp, f) ==
    [tp EXCEPT !.constraints = f.constraints, !.reified = f.reified,
               !.user_attributes = f.user_attributes, !.variance = f.variance]

\* The parameter lists the hooks of SpecFeatures receive: one declaration with
\* each combination of feature values, concrete or higher-kinded, at top level
\* or nested in a parameter TH
FeatureLists ==
    UNION { LET c == WithFeatures(MkTparam(<<"T">>, <<>>), f)
                h == WithFeatures(MkTparam(<<"T">>, <<MkTparam(<<"T", "X">>, <<>>)>>), f)
            IN  { Positioned(<<c>>, 1),
                  Positioned(<<h>>, 1),
                  Positioned(<<MkTparam(<<"T", "H">>, <<c>>)>>, 1),
                  Positioned(<<MkTparam(<<"T", "H">>, <<h>>)>>, 1) }
            : f \in FeatureValues }

\* The declarations the lists of SpecTree are built from: a well-named one,
\* one with constraints and a variance, and one whose name lacks the 'T'
TreeProtos ==
    { MkTparam(<<"T">>, <<>>),
      [MkTparam(<<"T">>, <<>>) EXCEPT !.constraints = <<"Constraint_as">>,
                                      !.variance = "Covariant"],
      MkTparam(<<"X">>, <<>>) }

\* The lists with exactly n declarations, each one of protos with a nested
\* list, every shape
RECURSIVE TreesOfSize(_, _)
TreesOfSize(n, protos) ==
    IF n = 0 THEN {<<>>}
    ELSE UNION { { <<[d EXCEPT !.parameters = kids]>> \o rest :
                     d \in protos,
                     kids \in TreesOfSize(k, protos),
                     rest \in TreesOfSize(n - 1 - k, protos) } : k \in 0..(n - 1) }

\* The parameter lists the hooks of SpecTree receive
TreeLists ==
    { Positioned(l, 1) : l \in UNION { TreesOfSize(n, TreeProtos) : n \in 0..MaxDeep } }

----------------------------------------------------------------------------
(* Diagnostics (oxidized::naming_error::NamingError) *)

ShadowedTparam(pos, tparam_name, prev_pos) ==
    [kind |-> "ShadowedTparam", pos |-> pos, tparam_name |-> tparam_name,
     prev_pos |-> prev_pos]

TparamNonShadowingReuse(pos, tparam_name) ==
    [kind |-> "TparamNonShadowingReuse", pos |-> pos, tparam_name |-> tparam_name]

ThisReserved(pos) == [kind |-> "ThisReserved", pos |-> pos]

WildcardHintDisallowed(pos) == [kind |-> "WildcardHintDisallowed", pos |-> pos]

StartWithT(pos) == [kind |-> "StartWithT", pos |-> pos]

HKTUnsupportedFeature(pos, because_nested, var_name, feature) ==
    [kind |-> "HKTUnsupportedFeature", pos |-> pos,
     because_nested |-> because_nested, var_name |-> var_name,
     feature |-> feature]

----------------------------------------------------------------------------
(* The scope table *)

\* HashMap::get : Some(entry) as <<entry>>, None as <<>>
Get(info, n) == IF n \in DOMAIN info THEN <<info[n]>> ELSE <<>>

\* HashMap::insert : insert or overwrite
Insert(info, n, e) == (n :> e) @@ info

\* HashMap::clear
Cleared == <<>>

\* Fault of FlagsSet: setting a bit drops the other bits
FlagsSet_Exclusive(fl, flag, value) == IF value THEN {flag} ELSE fl \ {flag}

\* Flags::set
FlagsSet(fl, flag, value) == IF value THEN fl \cup {flag} ELSE fl \ {flag}

----------------------------------------------------------------------------
(* check_tparams, first loop: one parameter of the bind pass *)

\* Fault of BindErrs: the in-scope and the out-of-scope case exchanged
BindErrs_Exchanged(info, tp) ==
    LET e == Get(info, tp.name)
    IN  IF e = <<>> THEN <<>>
        ELSE IF e[1].in_scope
             THEN <<TparamNonShadowingReuse(tp.pos, tp.name)>>
             ELSE <<ShadowedTparam(tp.pos, tp.name, e[1].pos)>>

\* Fault of BindErrs: an existing entry is reported both ways
BindErrs_Both(info, tp) ==
    LET e == Get(info, tp.name)
    IN  IF e = <<>> THEN <<>>
        ELSE <<ShadowedTparam(tp.pos, tp.name, e[1].pos),
               TparamNonShadowingReuse(tp.pos, tp.name)>>

\* The diagnostics the lookup of tp's name yields
BindErrs(info, tp) ==
    LET e == Get(info, tp.name)
    IN  IF e = <<>> THEN <<>>
        ELSE IF e[1].in_scope
             THEN <<ShadowedTparam(tp.pos, tp.name, e[1].pos)>>
             ELSE <<TparamNonShadowingReuse(tp.pos, tp.name)>>

\* The kind recorded for tp
KindOf(tp) == IF tp.parameters = <<>> THEN Concrete ELSE Higher

\* Fault of BindInfo: an existing entry keeps the kind it had
BindInfo_KeepsKind(info, tp) ==
    Insert(info, tp.name,
           [pos |-> tp.pos, in_scope |-> TRUE,
            kind |-> IF tp.name \in DOMAIN info THEN info[tp.name].kind ELSE KindOf(tp)])

\* Fault of BindInfo: an existing entry keeps the position it had
BindInfo_KeepsPos(info, tp) ==
    Insert(info, tp.name,
           [pos |-> IF tp.name \in DOMAIN info THEN info[tp.name].pos ELSE tp.pos,
            in_scope |-> TRUE, kind |-> KindOf(tp)])

\* The table after tp is bound
BindInfo(info, tp) ==
    Insert(info, tp.name, [pos |-> tp.pos, in_scope |-> TRUE, kind |-> KindOf(tp)])

\* Fault of NotWildcard: the filter lets every parameter through
NotWildcard_Always(tp) == TRUE

\* The filter of the first and of the third loop
NotWildcard(tp) == tp.name # WILDCARD

----------------------------------------------------------------------------
(* check_tparam: the diagnostics of one parameter *)

\* Fault of NameErrs: the name is compared with `this` without lower-casing
NameErrs_CaseSensitive(tparam, nested) ==
    LET is_hk == tparam.parameters # <<>>
        name == tparam.name
        pos == tparam.pos
    IN  IF name = THIS
        THEN <<ThisReserved(pos)>>
        ELSE IF name = WILDCARD /\ (~nested \/ is_hk)
        THEN <<WildcardHintDisallowed(pos)>>
        ELSE IF name = <<>> \/ ~starts_with_T(name)
        THEN <<StartWithT(pos)>>
        ELSE <<>>

NameErrs(tparam, nested) ==
    LET is_hk == tparam.parameters # <<>>
        name == tparam.name
        pos == tparam.pos
    IN  IF to_lowercase(name) = THIS
        THEN <<ThisReserved(pos)>>
        ELSE IF name = WILDCARD /\ (~nested \/ is_hk)
        THEN <<WildcardHintDisallowed(pos)>>
        ELSE IF name = <<>> \/ ~starts_with_T(name)
        THEN <<StartWithT(pos)>>
        ELSE <<>>

\* Fault of FeatureErrs: the second test is the else-branch of the first
FeatureErrs_ElseIf(present, tparam, nested, feature) ==
    LET is_hk == tparam.parameters # <<>>
    IN  IF ~present THEN <<>>
        ELSE IF nested
        THEN <<HKTUnsupportedFeature(tparam.pos, TRUE, tparam.name, feature)>>
        ELSE IF is_hk
        THEN <<HKTUnsupportedFeature(tparam.pos, FALSE, tparam.name, feature)>>
        ELSE <<>>

\* One feature block: because_nested = true first, then because_nested = false
FeatureErrs(present, tparam, nested, feature) ==
    LET is_hk == tparam.parameters # <<>>
    IN  IF ~present THEN <<>>
        ELSE (IF nested
              THEN <<HKTUnsupportedFeature(tparam.pos, TRUE, tparam.name, feature)>>
              ELSE <<>>)
             \o (IF is_hk
                 THEN <<HKTUnsupportedFeature(tparam.pos, FALSE, tparam.name, feature)>>
                 ELSE <<>>)

CheckTparamErrs(tparam, nested) ==
    NameErrs(tparam, nested)
      \o FeatureErrs(tparam.constraints # <<>>, tparam, nested, "FtConstraints")
      \o FeatureErrs(tparam.reified # "Erased", tparam, nested, "FtReification")
      \o FeatureErrs(tparam.user_attributes # <<>>, tparam, nested, "FtUserAttrs")
      \o FeatureErrs(tparam.variance # "Invariant", tparam, nested, "FtVariance")

----------------------------------------------------------------------------
(* check_tparams, third loop: one parameter of the unbind pass *)

\* Fault of UnbindInfo: the entry is left in scope
UnbindInfo_Noop(info, tp) == info

\* Fault of UnbindInfo: the entry is removed instead of marked
UnbindInfo_Removes(info, tp) ==
    [n \in DOMAIN info \ {tp.name} |-> info[n]]

\* entry(name).and_modify(|e| e.1 = false)
UnbindInfo(info, tp) ==
    IF tp.name \in DOMAIN info
    THEN [info EXCEPT ![tp.name].in_scope = FALSE]
    ELSE info

----------------------------------------------------------------------------
(* check_tparams as a function: the table and the diagnostics a call leaves, *)
(* given the table it finds.  r is [info, errs]: the table and what the call *)
(* has pushed so far.                                                        *)

\* First loop
RECURSIVE BindAll(_, _)
BindAll(r, tparams) ==
    IF tparams = <<>> THEN r
    ELSE LET tp == Head(tparams)
         IN  BindAll(IF NotWildcard(tp)
                     THEN [info |-> BindInfo(r.info, tp),
                           errs |-> r.errs \o BindErrs(r.info, tp)]
                     ELSE r,
                     Tail(tparams))

\* Third loop
RECURSIVE UnbindAll(_, _)
UnbindAll(r, tparams) ==
    IF tparams = <<>> THEN r
    ELSE LET tp == Head(tparams)
         IN  UnbindAll(IF NotWildcard(tp)
                       THEN [r EXCEPT !.info = UnbindInfo(r.info, tp)]
                       ELSE r,
                       Tail(tparams))

\* check_tparams, and its second loop CheckAll: check_tparam on each
\* parameter, which ends with check_tparams on the nested list
RECURSIVE check_tparams(_, _, _), CheckAll(_, _, _)
check_tparams(r, tparams, nested) ==
    LET checked == CheckAll(BindAll(r, tparams), tparams, nested)
    IN  IF nested THEN UnbindAll(checked, tparams) ELSE checked

CheckAll(r, tparams, nested) ==
    IF tparams = <<>> THEN r
    ELSE LET tp == Head(tparams)
             own == [r EXCEPT !.errs = r.errs \o CheckTparamErrs(tp, nested)]
         IN  CheckAll(check_tparams(own, tp.parameters, TRUE), Tail(tparams), nested)

----------------------------------------------------------------------------
(* The call stack *)

\* An activation of check_tparams(tparams, nested) at its first loop.  A call
\* with an empty list runs no loop body and returns at once: it leaves no
\* activation.
Activation(tparams, nested) ==
    IF tparams = <<>> THEN <<>>
    ELSE <<[tparams |-> tparams, nested |-> nested, at |-> "bind", i |-> 1]>>

Top == Head(stack)

\* The non-wildcard names a list declares at its own level
TopNames(tparams) ==
    { tparams[k].name : k \in { j \in 1..Len(tparams) : tparams[j].name # WILDCARD } }

Running == pc \in {"class", "typedef", "fun", "method"}

TypeOK ==
    /\ flags \subseteq {IN_METHOD_OR_FUN, IN_WHERE_CONSTRAINT}
    /\ pc \in {"idle", "class", "typedef", "fun", "method", "done"}
    /\ ret \in {"none", "Continue", "Break"}
    /\ \A k \in 1..Len(stack) : stack[k].at \in {"bind", "check", "unbind", "ret"}
    /\ \A k \in 1..Len(trace) : trace[k].op \in {"bind", "check"}
    /\ Len(errs0) <= Len(errs)

Init ==
    /\ tparam_info = Cleared
    /\ flags = {}
    /\ errs = <<>>
    /\ stack = <<>>
    /\ pc = "idle"
    /\ elem = [hook |-> "none"]
    /\ ret = "none"
    /\ owner = "none"
    /\ errs0 = <<>>
    /\ trace = <<>>

----------------------------------------------------------------------------
(* Hook entries.  prior is the content of the caller's vector on entry. *)

\* Fault of ClassEnter: the table is not cleared
ClassEnter_KeepsTable(tparams, prior) ==
    /\ pc = "idle"
    /\ pc' = "class"
    /\ elem' = [hook |-> "class", tparams |-> tparams]
    /\ errs' = prior
    /\ errs0' = prior
    /\ trace' = <<>>
    /\ stack' = Activation(tparams, FALSE)
    /\ owner' = "class"
    /\ UNCHANGED <<tparam_info, flags, ret>>

\* on_ty_class__top_down up to the call of check_tparams
ClassEnter(tparams, prior) ==
    /\ pc = "idle"
    /\ pc' = "class"
    /\ elem' = [hook |-> "class", tparams |-> tparams]
    /\ errs' = prior
    /\ errs0' = prior
    /\ trace' = <<>>
    /\ tparam_info' = Cleared
    /\ stack' = Activation(tparams, FALSE)
    /\ owner' = "class"
    /\ UNCHANGED <<flags, ret>>

\* on_ty_typedef_top_down up to the call of check_tparams
TypedefEnter(tparams, prior) ==
    /\ pc = "idle"
    /\ pc' = "typedef"
    /\ elem' = [hook |-> "typedef", tparams |-> tparams]
    /\ errs' = prior
    /\ errs0' = prior
    /\ trace' = <<>>
    /\ tparam_info' = Cleared
    /\ stack' = Activation(tparams, FALSE)
    /\ owner' = "typedef"
    /\ UNCHANGED <<flags, ret>>

\* on_ty_fun__top_down up to the call of check_tparams
FunEnter(tparams, prior) ==
    /\ pc = "idle"
    /\ pc' = "fun"
    /\ elem' = [hook |-> "fun", tparams |-> tparams]
    /\ errs' = prior
    /\ errs0' = prior
    /\ trace' = <<>>
    /\ tparam_info' = Cleared
    /\ stack' = Activation(tparams, FALSE)
    /\ owner' = "fun"
    /\ UNCHANGED <<flags, ret>>

\* on_ty_method__top_down up to the call of check_tparams
MethodEnter(tparams, prior) ==
    /\ pc = "idle"
    /\ pc' = "method"
    /\ elem' = [hook |-> "method", tparams |-> tparams]
    /\ errs' = prior
    /\ errs0' = prior
    /\ trace' = <<>>
    /\ stack' = Activation(tparams, FALSE)
    /\ owner' = "method"
    /\ UNCHANGED <<tparam_info, flags, ret>>

----------------------------------------------------------------------------
(* check_tparams, one step of the activation on top of the stack *)

\* First loop, parameter i: wildcards are filtered out, any other name is
\* looked up, reported and (re)inserted.
BindTparam ==
    /\ Running /\ stack # <<>>
    /\ Top.at = "bind"
    /\ LET tp == Top.tparams[Top.i]
           last == Top.i = Len(Top.tparams)
       IN  /\ IF NotWildcard(tp)
              THEN /\ errs' = errs \o BindErrs(tparam_info, tp)
                   /\ tparam_info' = BindInfo(tparam_info, tp)
                   /\ trace' = Append(trace, [op |-> "bind", pos |-> tp.pos])
              ELSE UNCHANGED <<errs, tparam_info, trace>>
           /\ stack' = <<[Top EXCEPT !.at = IF last THEN "check" ELSE "bind",
                                     !.i = IF last THEN 1 ELSE Top.i + 1]>>
                         \o Tail(stack)
    /\ UNCHANGED <<flags, pc, elem, ret, owner, errs0>>

\* Fault of CheckTparam: a parameter that has a diagnostic is not descended into
CheckTparam_StopsAtDiagnostic ==
    /\ Running /\ stack # <<>>
    /\ Top.at = "check"
    /\ Top.i <= Len(Top.tparams)
    /\ LET tp == Top.tparams[Top.i]
           found == CheckTparamErrs(tp, Top.nested)
       IN  /\ errs' = errs \o found
           /\ trace' = Append(trace, [op |-> "check", pos |-> tp.pos])
           /\ stack' = (IF found = <<>> THEN Activation(tp.parameters, TRUE) ELSE <<>>)
                         \o <<[Top EXCEPT !.i = Top.i + 1]>> \o Tail(stack)
    /\ UNCHANGED <<tparam_info, flags, pc, elem, ret, owner, errs0>>

\* Second loop, parameter i: check_tparam(tp, nested), whose last statement
\* calls check_tparams(&tp.parameters, true).
CheckTparam ==
    /\ Running /\ stack # <<>>
    /\ Top.at = "check"
    /\ Top.i <= Len(Top.tparams)
    /\ LET tp == Top.tparams[Top.i]
       IN  /\ errs' = errs \o CheckTparamErrs(tp, Top.nested)
           /\ trace' = Append(trace, [op |-> "check", pos |-> tp.pos])
           /\ stack' = Activation(tp.parameters, TRUE)
                         \o <<[Top EXCEPT !.i = Top.i + 1]>> \o Tail(stack)
    /\ UNCHANGED <<tparam_info, flags, pc, elem, ret, owner, errs0>>

\* End of the second loop: a nested list goes on to the third loop, a
\* top-level list returns.
CheckDone ==
    /\ Running /\ stack # <<>>
    /\ Top.at = "check"
    /\ Top.i > Len(Top.tparams)
    /\ stack' = IF Top.nested
                THEN <<[Top EXCEPT !.at = "unbind", !.i = 1]>> \o Tail(stack)
                ELSE Tail(stack)
    /\ UNCHANGED <<tparam_info, flags, errs, pc, elem, ret, owner, errs0, trace>>

\* Third loop (nested lists only), parameter i
UnbindTparam ==
    /\ Running /\ stack # <<>>
    /\ Top.at = "unbind"
    /\ LET tp == Top.tparams[Top.i]
           last == Top.i = Len(Top.tparams)
       IN  /\ tparam_info' = IF NotWildcard(tp)
                             THEN UnbindInfo(tparam_info, tp)
                             ELSE tparam_info
           /\ stack' = <<[Top EXCEPT !.at = IF last THEN "ret" ELSE "unbind",
                                     !.i = IF last THEN Top.i ELSE Top.i + 1]>>
                         \o Tail(stack)
    /\ UNCHANGED <<flags, errs, pc, elem, ret, owner, errs0, trace>>

\* A nested list returns to the check_tparam that called it
Return ==
    /\ Running /\ stack # <<>>
    /\ Top.at = "ret"
    /\ stack' = Tail(stack)
    /\ UNCHANGED <<tparam_info, flags, errs, pc, elem, ret, owner, errs0, trace>>

----------------------------------------------------------------------------
(* Hook exits and the one-step hooks *)

\* Fault of HookReturn: a hook that has reported something stops the descent
HookReturn_BreaksAtDiagnostic ==
    /\ Running /\ stack = <<>>
    /\ flags' = IF pc \in {"fun", "method"}
                THEN FlagsSet(flags, IN_METHOD_OR_FUN, TRUE)
                ELSE flags
    /\ ret' = IF errs = errs0 THEN "Continue" ELSE "Break"
    /\ pc' = "done"
    /\ UNCHANGED <<tparam_info, errs, stack, elem, owner, errs0, trace>>

\* The statements of a hook after check_tparams has returned
HookReturn ==
    /\ Running /\ stack = <<>>
    /\ flags' = IF pc \in {"fun", "method"}
                THEN FlagsSet(flags, IN_METHOD_OR_FUN, TRUE)
                ELSE flags
    /\ ret' = "Continue"
    /\ pc' = "done"
    /\ UNCHANGED <<tparam_info, errs, stack, elem, owner, errs0, trace>>

\* on_ty_where_constraint_hint_top_down
WhereConstraintHint(prior) ==
    /\ pc = "idle"
    /\ elem' = [hook |-> "where"]
    /\ errs' = prior
    /\ errs0' = prior
    /\ trace' = <<>>
    /\ flags' = FlagsSet(flags, IN_WHERE_CONSTRAINT, TRUE)
    /\ ret' = "Continue"
    /\ pc' = "done"
    /\ UNCHANGED <<tparam_info, stack, owner>>

\* Fault of HintErrs: the where-constraint flag is not consulted
HintErrs_NoWhereFlag(info, fl, hint) ==
    IF IN_METHOD_OR_FUN \in fl
    THEN IF hint.tag = "Habstr"
         THEN LET e == Get(info, hint.name)
              IN  IF e # <<>> /\ e[1].in_scope /\ e[1].kind = Higher
                  THEN <<HKTUnsupportedFeature(hint.pos, FALSE, hint.name,
                                               "FtWhereConstraints")>>
                  ELSE <<>>
         ELSE <<>>
    ELSE <<>>

\* The diagnostics of on_ty_hint_top_down
HintErrs(info, fl, hint) ==
    IF IN_METHOD_OR_FUN \in fl /\ IN_WHERE_CONSTRAINT \in fl
    THEN IF hint.tag = "Habstr"
         THEN LET e == Get(info, hint.name)
              IN  IF e # <<>> /\ e[1].in_scope /\ e[1].kind = Higher
                  THEN <<HKTUnsupportedFeature(hint.pos, FALSE, hint.name,
                                               "FtWhereConstraints")>>
                  ELSE <<>>
         ELSE <<>>
    ELSE <<>>

\* Fault of HintVisit: the vector is assigned, not extended
HintVisit_Overwrites(hint, prior) ==
    /\ pc = "idle"
    /\ elem' = [hook |-> "hint", hint |-> hint]
    /\ errs' = HintErrs(tparam_info, flags, hint)
    /\ errs0' = prior
    /\ trace' = <<>>
    /\ ret' = "Continue"
    /\ pc' = "done"
    /\ UNCHANGED <<tparam_info, flags, stack, owner>>

\* on_ty_hint_top_down
HintVisit(hint, prior) ==
    /\ pc = "idle"
    /\ elem' = [hook |-> "hint", hint |-> hint]
    /\ errs' = prior \o HintErrs(tparam_info, flags, hint)
    /\ errs0' = prior
    /\ trace' = <<>>
    /\ ret' = "Continue"
    /\ pc' = "done"
    /\ UNCHANGED <<tparam_info, flags, stack, owner>>

\* The traversal engine has taken the hook's result and moves on to the next
\* node; the pass keeps its table and its flags.
MoveOn ==
    /\ pc = "done"
    /\ pc' = "idle"
    /\ elem' = [hook |-> "none"]
    /\ errs' = <<>>
    /\ errs0' = <<>>
    /\ trace' = <<>>
    /\ ret' = "none"
    /\ UNCHANGED <<tparam_info, flags, stack, owner>>

----------------------------------------------------------------------------
(* The interface validator (ValidateInterfacePass of validate_interface.rs), a *)
(* pass without fields: its one hook reads the class and appends to the vector *)

\* Diagnostics (oxidized::nast_check_error::NastCheckError)
InterfaceUsesTrait(pos) == [kind |-> "InterfaceUsesTrait", pos |-> pos]

InterfaceWithMemberVariable(pos) == [kind |-> "InterfaceWithMemberVariable", pos |-> pos]

InterfaceWithStaticMemberVariable(pos) ==
    [kind |-> "InterfaceWithStaticMemberVariable", pos |-> pos]

AbstractBody(pos) == [kind |-> "AbstractBody", pos |-> pos]

\* enum ClassishKind
ClassishKinds == {"Cclass", "Cinterface", "Cenum", "CenumClass", "Ctrait"}

\* The sequences over S of length at most n
SeqsUpTo(n, S) == UNION { [1..k -> S] : k \in 0..n }

\* Inputs (oxidized::aast_defs::Class_): any kind, trait-use clauses, member
\* variables that are static or not, methods whose body is empty or not; the
\* k-th clause, variable and method have the positions 100+k, 200+k and 300+k
Classes ==
    { [kind |-> kd,
       uses |-> [k \in 1..nu |-> [pos |-> 100 + k]],
       vars |-> [k \in 1..Len(st) |-> [pos |-> 200 + k, is_static |-> st[k]]],
       methods |-> [k \in 1..Len(bd) |-> [pos |-> 300 + k, body |-> bd[k]]]] :
      kd \in ClassishKinds,
      nu \in 0..MaxUses,
      st \in SeqsUpTo(MaxVars, BOOLEAN),
      bd \in SeqsUpTo(MaxMethods, {<<>>, <<"stmt">>}) }

\* Fault of is_cinterface: traits are taken for interfaces
is_cinterface_OrTrait(kind) == kind \in {"Cinterface", "Ctrait"}

\* ClassishKind::is_cinterface
is_cinterface(kind) == kind = "Cinterface"

\* uses.iter().for_each: one diagnostic per clause
RECURSIVE UsesErrs(_)
UsesErrs(uses) ==
    IF uses = <<>> THEN <<>>
    ELSE <<InterfaceUsesTrait(Head(uses).pos)>> \o UsesErrs(Tail(uses))

\* Fault of FoldStep: a variable replaces the position found before
FoldStep_LastWins(acc, var) ==
    IF acc.has_instance_var # <<>> /\ acc.has_static_var # <<>>
    THEN [tag |-> "Done", acc |-> acc]
    ELSE IF var.is_static
    THEN [tag |-> "Continue", acc |-> [acc EXCEPT !.has_static_var = <<var.pos>>]]
    ELSE [tag |-> "Continue", acc |-> [acc EXCEPT !.has_instance_var = <<var.pos>>]]

\* The closure of fold_while on one variable: the match arms in their order.
\* An Option is a sequence: None is <<>>, Some(pos) is <<pos>>.
FoldStep(acc, var) ==
    IF acc.has_instance_var # <<>> /\ acc.has_static_var # <<>>
    THEN [tag |-> "Done", acc |-> acc]
    ELSE IF acc.has_static_var = <<>> /\ var.is_static
    THEN [tag |-> "Continue", acc |-> [acc EXCEPT !.has_static_var = <<var.pos>>]]
    ELSE IF acc.has_instance_var = <<>> /\ ~var.is_static
    THEN [tag |-> "Continue", acc |-> [acc EXCEPT !.has_instance_var = <<var.pos>>]]
    ELSE [tag |-> "Continue", acc |-> acc]

\* Itertools::fold_while(..).into_inner(): the scan stops at the first Done
RECURSIVE FoldWhile(_, _)
FoldWhile(vars_, acc) ==
    IF vars_ = <<>> THEN acc
    ELSE LET r == FoldStep(acc, Head(vars_))
         IN  IF r.tag = "Done" THEN r.acc ELSE FoldWhile(Tail(vars_), r.acc)

\* The two `if let Some(pos)` after the scan
VarErrs(vars_) ==
    LET found == FoldWhile(vars_, [has_instance_var |-> <<>>, has_static_var |-> <<>>])
    IN  (IF found.has_instance_var # <<>>
         THEN <<InterfaceWithMemberVariable(found.has_instance_var[1])>>
         ELSE <<>>)
        \o (IF found.has_static_var # <<>>
            THEN <<InterfaceWithStaticMemberVariable(found.has_static_var[1])>>
            ELSE <<>>)

\* Fault of MethodErrs: the body is not looked at
RECURSIVE MethodErrs_AnyBody(_)
MethodErrs_AnyBody(methods) ==
    IF methods = <<>> THEN <<>>
    ELSE <<AbstractBody(Head(methods).pos)>> \o MethodErrs_AnyBody(Tail(methods))

\* methods.iter().filter(body not empty).for_each: one diagnostic per method
RECURSIVE MethodErrs(_)
MethodErrs(methods) ==
    IF methods = <<>> THEN <<>>
    ELSE (IF Head(methods).body # <<>>
          THEN <<AbstractBody(Head(methods).pos)>>
          ELSE <<>>)
         \o MethodErrs(Tail(methods))

\* What the hook appends for the class cls
InterfaceErrs(cls) ==
    IF is_cinterface(cls.kind)
    THEN UsesErrs(cls.uses) \o VarErrs(cls.vars) \o MethodErrs(cls.methods)
    ELSE <<>>

\* ValidateInterfacePass::on_ty_class__bottom_up
on_ty_class__bottom_up(cls, prior) ==
    /\ pc = "idle"
    /\ elem' = [hook |-> "interface", class |-> cls]
    /\ errs' = prior \o InterfaceErrs(cls)
    /\ errs0' = prior
    /\ trace' = <<>>
    /\ ret' = "Continue"
    /\ pc' = "done"
    /\ UNCHANGED <<tparam_info, flags, stack, owner>>

----------------------------------------------------------------------------
(* The traversal engine calls the hooks in any order, each with a fresh vector *)

Next ==
    \/ \E tparams \in ScopeLists : ClassEnter(tparams, <<>>)
    \/ \E tparams \in ScopeLists : TypedefEnter(tparams, <<>>)
    \/ \E tparams \in ScopeLists : FunEnter(tparams, <<>>)
    \/ \E tparams \in ScopeLists : MethodEnter(tparams, <<>>)
    \/ BindTparam
    \/ CheckTparam
    \/ CheckDone
    \/ UnbindTparam
    \/ Return
    \/ HookReturn
    \/ MoveOn
    \/ WhereConstraintHint(<<>>)
    \/ \E hint \in ScopeHints : HintVisit(hint, <<>>)

Spec == Init /\ [][Next]_vars

\* The naming rules are exercised on every name by hooks that start from a
\* cleared table
NextNames ==
    \/ \E tparams \in NameLists : ClassEnter(tparams, <<>>)
    \/ \E tparams \in NameLists : FunEnter(tparams, <<>>)
    \/ BindTparam
    \/ CheckTparam
    \/ CheckDone
    \/ UnbindTparam
    \/ Return
    \/ HookReturn
    \/ MoveOn

SpecNames == Init /\ [][NextNames]_vars

\* The feature blocks are exercised on every combination of feature values
NextFeatures ==
    \/ \E tparams \in FeatureLists : ClassEnter(tparams, <<>>)
    \/ \E tparams \in FeatureLists : MethodEnter(tparams, <<>>)
    \/ BindTparam
    \/ CheckTparam
    \/ CheckDone
    \/ UnbindTparam
    \/ Return
    \/ HookReturn
    \/ MoveOn

SpecFeatures == Init /\ [][NextFeatures]_vars

\* Deeper and wider list trees are given to one hook that clears the table:
\* the first hook the engine calls on a pass
NextTree ==
    \/ pc = "idle" /\ \E tparams \in TreeLists : ClassEnter(tparams, <<>>)
    \/ pc = "idle" /\ \E tparams \in TreeLists : FunEnter(tparams, <<>>)
    \/ BindTparam
    \/ CheckTparam
    \/ CheckDone
    \/ UnbindTparam
    \/ Return
    \/ HookReturn

SpecTree == Init /\ [][NextTree]_vars

\* The engine drives the interface validator over class-like declarations
NextInterface ==
    \/ pc = "idle" /\ \E cls \in Classes : on_ty_class__bottom_up(cls, <<>>)
    \/ MoveOn

SpecInterface == Init /\ [][NextInterface]_vars

\* What the vector may hold when a hook receives it: nothing, or diagnostics
\* of earlier hooks and passes
Priors == {<<>>, <<StartWithT(1)>>, <<AbstractBody(301), StartWithT(1)>>}

\* The parameter lists the hooks of SpecPrior receive
PriorLists ==
    { Positioned(l, 1) :
        l \in UNION { ListsOfSize(n, {<<"T">>, WILDCARD}) : n \in 0..MaxParams } }

\* The class-like declarations the interface hook of SpecPrior receives
PriorClasses ==
    { c \in Classes : Len(c.uses) <= 1 /\ Len(c.vars) <= 1 /\ Len(c.methods) <= 1 }

\* The engine calls the hooks of both validators in any order, each with a
\* vector that may already hold diagnostics
NextPrior ==
    \/ pc = "idle" /\ \E tparams \in PriorLists, prior \in Priors : ClassEnter(tparams, prior)
    \/ pc = "idle" /\ \E tparams \in PriorLists, prior \in Priors : TypedefEnter(tparams, prior)
    \/ pc = "idle" /\ \E tparams \in PriorLists, prior \in Priors : FunEnter(tparams, prior)
    \/ pc = "idle" /\ \E tparams \in PriorLists, prior \in Priors : MethodEnter(tparams, prior)
    \/ BindTparam
    \/ CheckTparam
    \/ CheckDone
    \/ UnbindTparam
    \/ Return
    \/ HookReturn
    \/ MoveOn
    \/ \E prior \in Priors : WhereConstraintHint(prior)
    \/ \E hint \in ScopeHints, prior \in Priors : HintVisit(hint, prior)
    \/ pc = "idle" /\ \E cls \in PriorClasses, prior \in Priors : on_ty_class__bottom_up(cls, prior)

SpecPrior == Init /\ [][NextPrior]_vars

----------------------------------------------------------------------------
(* Vocabulary of the properties *)

\* The hooks that receive a parameter list
TparamHooks == {"class", "typedef", "fun", "method"}

\* The hooks that clear the table before binding their list
ClearingHooks == {"class", "typedef", "fun"}

\* The number of diagnostics of kind k in seq
Count(seq, k) == Cardinality({ j \in 1..Len(seq) : seq[j].kind = k })

\* What this step appended to the vector
Appended == SubSeq(errs', Len(errs) + 1, Len(errs'))

\* This step only appended to the vector
OnlyAppended == Len(errs') >= Len(errs) /\ SubSeq(errs', 1, Len(errs)) = errs

\* Every declaration of a list, nested ones included, with the nested flag of
\* the check_tparams call that processes it
RECURSIVE Decls(_, _)
Decls(tparams, nested) ==
    IF tparams = <<>> THEN {}
    ELSE {[tp |-> Head(tparams), nested |-> nested]}
           \cup Decls(Head(tparams).parameters, TRUE)
           \cup Decls(Tail(tparams), nested)

\* A hook that received a parameter list has returned
TparamHookDone == pc = "done" /\ elem.hook \in TparamHooks

\* The activation on top of the stack is about to bind parameter Top.i
AtBind == Running /\ stack # <<>> /\ Top.at = "bind"

\* The parameter the activation on top of the stack is at
Cur == Top.tparams[Top.i]

----------------------------------------------------------------------------
(* C1 *)

\* C1: in every bind pass (nested or top-level list, any reachable table), a
\* non-wildcard parameter whose name has an entry with in_scope = true when it
\* is bound yields exactly one ShadowedTparam (for that name and position) and
\* no TparamNonShadowingReuse; one whose entry has in_scope = false yields
\* exactly one TparamNonShadowingReuse and no ShadowedTparam; one without entry
\* yields nothing.  A list of two concrete declarations of one name, given to a
\* hook that starts from a cleared table, yields exactly one ShadowedTparam.
C1_BindDiagnostics ==
    [][ /\ (AtBind /\ Cur.name # WILDCARD) =>
              LET n == Cur.name
                  new == Appended
              IN  /\ OnlyAppended
                  /\ (n \in DOMAIN tparam_info /\ tparam_info[n].in_scope) =>
                        /\ Len(new) = 1
                        /\ new[1].kind = "ShadowedTparam"
                        /\ new[1].tparam_name = n
                        /\ new[1].pos = Cur.pos
                  /\ (n \in DOMAIN tparam_info /\ ~tparam_info[n].in_scope) =>
                        /\ Len(new) = 1
                        /\ new[1].kind = "TparamNonShadowingReuse"
                        /\ new[1].tparam_name = n
                        /\ new[1].pos = Cur.pos
                  /\ (n \notin DOMAIN tparam_info) => new = <<>>
        /\ (/\ pc' = "done"
            /\ elem'.hook \in ClearingHooks
            /\ Len(elem'.tparams) = 2
            /\ Size(elem'.tparams) = 2
            /\ elem'.tparams[1].name = elem'.tparams[2].name
            /\ elem'.tparams[1].name # WILDCARD) =>
              /\ Count(errs', "ShadowedTparam") = 1
              /\ Count(errs', "TparamNonShadowingReuse") = 0
      ]_vars

\* A method list whose binds reported a reuse of an unbound name and then a
\* shadowing of the name just rebound
C1_Witness ==
    /\ pc = "done"
    /\ elem.hook = "method"
    /\ Count(errs, "ShadowedTparam") = 1
    /\ Count(errs, "TparamNonShadowingReuse") = 1

----------------------------------------------------------------------------
(* C2 *)

\* C2 (its first assertion, from which it derives the others): when
\* on_ty_class__top_down has returned, every non-wildcard top-level name of the
\* class's parameter list has an entry with in_scope = true.
C2_ClassScopeVisible ==
    (pc = "done" /\ elem.hook = "class") =>
        \A n \in TopNames(elem.tparams) :
            n \in DOMAIN tparam_info /\ tparam_info[n].in_scope

----------------------------------------------------------------------------
(* C3 *)

\* C3: when check_tparams has run its third loop for a nested list, every
\* non-wildcard name of that list has an entry and the entry has in_scope =
\* false; and a top-level list that binds a name whose entry has in_scope =
\* false yields exactly one TparamNonShadowingReuse and no ShadowedTparam for it.
C3_NestedNamesUnbound ==
    [][ /\ (stack' # <<>> /\ Head(stack').at = "ret") =>
              \A n \in TopNames(Head(stack').tparams) :
                  n \in DOMAIN tparam_info' /\ ~tparam_info'[n].in_scope
        /\ (/\ AtBind
            /\ ~Top.nested
            /\ Cur.name # WILDCARD
            /\ Cur.name \in DOMAIN tparam_info
            /\ ~tparam_info[Cur.name].in_scope) =>
              Appended = <<[kind |-> "TparamNonShadowingReuse", pos |-> Cur.pos,
                            tparam_name |-> Cur.name]>>
      ]_vars

\* A method declaring one concrete parameter has returned with exactly one
\* TparamNonShadowingReuse: the name was left unbound by a nested list
C3_Witness ==
    /\ pc = "done"
    /\ elem.hook = "method"
    /\ Len(elem.tparams) = 1
    /\ elem.tparams[1].parameters = <<>>
    /\ Len(errs) = 1
    /\ errs[1].kind = "TparamNonShadowingReuse"
    /\ errs[1].tparam_name = elem.tparams[1].name

----------------------------------------------------------------------------
(* C4 *)

\* C4 as claimed: a bind that reports ShadowedTparam leaves the kind of the
\* name's entry as it was.
C4_KindFixed ==
    [][ (/\ AtBind
         /\ Cur.name # WILDCARD
         /\ Cur.name \in DOMAIN tparam_info
         /\ tparam_info[Cur.name].in_scope) =>
            tparam_info'[Cur.name].kind = tparam_info[Cur.name].kind
      ]_vars

\* C4 amended: every bind of a name, also one that reports ShadowedTparam,
\* sets the kind of the name's entry to Higher iff the parameter bound has a
\* non-empty nested list, else Concrete; no other step changes the kind of an
\* entry that stays in the table.
C4_KindSetByBind ==
    [][ /\ (AtBind /\ Cur.name # WILDCARD) =>
              tparam_info'[Cur.name].kind =
                  (IF Len(Cur.parameters) > 0 THEN "Higher" ELSE "Concrete")
        /\ \A m \in DOMAIN tparam_info \cap DOMAIN tparam_info' :
              tparam_info'[m].kind # tparam_info[m].kind =>
                  (AtBind /\ Cur.name = m)
      ]_vars

\* The last bind reported that it shadows a declaration of the same list tree
\* and the entry now has the kind of the new declaration, not of the shadowed one
C4_Witness ==
    /\ Running
    /\ elem.hook \in ClearingHooks
    /\ errs # <<>>
    /\ LET d == errs[Len(errs)]
       IN  /\ d.kind = "ShadowedTparam"
           /\ tparam_info[d.tparam_name].pos = d.pos
           /\ \E x \in Decls(elem.tparams, FALSE) :
                 /\ x.tp.pos = d.prev_pos
                 /\ (x.tp.parameters = <<>>)
                      # (tparam_info[d.tparam_name].kind = "Concrete")

----------------------------------------------------------------------------
(* C5 *)

\* C5: the entry of on_ty_class__top_down, on_ty_typedef_top_down and
\* on_ty_fun__top_down leaves the table without keys before the list is bound;
\* no other step (the entry of on_ty_method__top_down, the where-constraint and
\* hint hooks, a bind, a check, the third loop of a nested list, a return)
\* removes a key.
C5_KeysRemovedOnlyByClear ==
    [][ IF pc = "idle" /\ pc' \in ClearingHooks
        THEN DOMAIN tparam_info' = {}
        ELSE DOMAIN tparam_info \subseteq DOMAIN tparam_info'
      ]_vars

\* A method whose list has a nested list has returned and the table still has
\* a key that no declaration of the method's list names
C5_Witness ==
    /\ pc = "done"
    /\ elem.hook = "method"
    /\ \E x \in Decls(elem.tparams, FALSE) : x.nested
    /\ \E n \in DOMAIN tparam_info :
          \A x \in Decls(elem.tparams, FALSE) : x.tp.name # n

----------------------------------------------------------------------------
(* C6 *)

\* C6: the wildcard name is never a key of the table, and no ShadowedTparam or
\* TparamNonShadowingReuse is reported for the wildcard name.
C6_WildcardNeverBound ==
    /\ WILDCARD \notin DOMAIN tparam_info
    /\ \A k \in 1..Len(errs) :
          errs[k].kind \in {"ShadowedTparam", "TparamNonShadowingReuse"} =>
              errs[k].tparam_name # WILDCARD

\* A hook has returned whose list tree declares the wildcard at least twice
C6_Witness ==
    /\ TparamHookDone
    /\ Cardinality({ x \in Decls(elem.tparams, FALSE) : x.tp.name = WILDCARD }) >= 2
    /\ Count(errs, "ShadowedTparam") = 0
    /\ Count(errs, "TparamNonShadowingReuse") = 0

----------------------------------------------------------------------------
(* C7 *)

\* C7: on_ty_hint_top_down appends exactly one HKTUnsupportedFeature
\* {FtWhereConstraints, because_nested = false, var_name = t} when both flags
\* are set, the hint is Habstr(t) and the table maps t to an entry with
\* in_scope = true and kind Higher; otherwise it appends nothing; it never
\* changes the table or the flags.
C7_HintVisit ==
    [][ (pc = "idle" /\ elem'.hook = "hint") =>
            LET h == elem'.hint
                fires == /\ "IN_METHOD_OR_FUN" \in flags
                         /\ "IN_WHERE_CONSTRAINT" \in flags
                         /\ h.tag = "Habstr"
                         /\ h.name \in DOMAIN tparam_info
                         /\ tparam_info[h.name].in_scope
                         /\ tparam_info[h.name].kind = "Higher"
            IN  /\ OnlyAppended
                /\ Appended =
                     (IF fires
                      THEN <<[kind |-> "HKTUnsupportedFeature", pos |-> h.pos,
                              because_nested |-> FALSE, var_name |-> h.name,
                              feature |-> "FtWhereConstraints"]>>
                      ELSE <<>>)
                /\ tparam_info' = tparam_info
                /\ flags' = flags
      ]_vars

\* A hint visit has reported a higher-kinded parameter in a where constraint
C7_Witness ==
    /\ pc = "done"
    /\ elem.hook = "hint"
    /\ Len(errs) = 1
    /\ errs[1].feature = "FtWhereConstraints"

----------------------------------------------------------------------------
(* C8 *)

\* C8: a hint visited after on_ty_class__top_down or on_ty_typedef_top_down and
\* before any later on_ty_fun__top_down or on_ty_method__top_down yields no
\* HKTUnsupportedFeature {FtWhereConstraints}.
C8_NoWhereDiagnosticInClass ==
    (pc = "done" /\ elem.hook = "hint" /\ owner \in {"class", "typedef"}) =>
        \A k \in 1..Len(errs) :
            ~(errs[k].kind = "HKTUnsupportedFeature"
              /\ errs[k].feature = "FtWhereConstraints")

----------------------------------------------------------------------------
(* C9 *)

\* The naming diagnostics reported at position p
NamingAt(p) ==
    LET IsNaming(d) ==
            /\ d.kind \in {"ThisReserved", "WildcardHintDisallowed", "StartWithT"}
            /\ d.pos = p
    IN  SelectSeq(errs, IsNaming)

\* A spelling of `this` in any letter case
SpellsThis(name) ==
    /\ Len(name) = 4
    /\ name[1] \in {"t", "T"}
    /\ name[2] \in {"h", "H"}
    /\ name[3] \in {"i", "I"}
    /\ name[4] \in {"s", "S"}

\* C9: the single-parameter check reports at most one naming diagnostic per
\* parameter, by first match: ThisReserved iff the name spells `this` in any
\* letter case; else WildcardHintDisallowed iff the name is the wildcard and
\* the parameter is top-level or higher-kinded; else StartWithT iff the name is
\* empty or its first character is not 'T'; else none.  A parameter named X
\* yields StartWithT; one named This, this, THIS or tHiS yields ThisReserved.
C9_NameRules ==
    TparamHookDone =>
        \A x \in Decls(elem.tparams, FALSE) :
            LET name == x.tp.name
                got == NamingAt(x.tp.pos)
                wild == name = <<"_">> /\ (~x.nested \/ Len(x.tp.parameters) > 0)
                notT == Len(name) = 0 \/ name[1] # "T"
            IN  /\ Len(got) <= 1
                /\ (Count(got, "ThisReserved") = 1) <=> SpellsThis(name)
                /\ (Count(got, "WildcardHintDisallowed") = 1) <=>
                       (~SpellsThis(name) /\ wild)
                /\ (Count(got, "StartWithT") = 1) <=>
                       (~SpellsThis(name) /\ ~wild /\ notT)
                /\ name = <<"X">> => Count(got, "StartWithT") = 1
                /\ name \in {<<"T", "h", "i", "s">>, <<"t", "h", "i", "s">>,
                             <<"T", "H", "I", "S">>, <<"t", "H", "i", "S">>} =>
                       (Count(got, "ThisReserved") = 1 /\ Count(got, "StartWithT") = 0)

\* A hook has returned whose list declares a parameter spelled This with a
\* capital T, reported as ThisReserved
C9_Witness ==
    /\ TparamHookDone
    /\ \E x \in Decls(elem.tparams, FALSE) :
          /\ x.tp.name = <<"T", "h", "i", "s">>
          /\ Count(NamingAt(x.tp.pos), "ThisReserved") = 1

----------------------------------------------------------------------------
(* C10 *)

\* C10: a wildcard-named parameter with an empty nested list, checked with
\* nested = true, gets no naming diagnostic.
C10_NestedWildcardAllowed ==
    TparamHookDone =>
        \A x \in Decls(elem.tparams, FALSE) :
            (x.nested /\ x.tp.name = <<"_">> /\ x.tp.parameters = <<>>) =>
                NamingAt(x.tp.pos) = <<>>

\* A hook has returned whose list nests a concrete wildcard in a higher-kinded
\* parameter
C10_Witness ==
    /\ TparamHookDone
    /\ \E x \in Decls(elem.tparams, FALSE) :
          x.nested /\ x.tp.name = <<"_">> /\ x.tp.parameters = <<>>

----------------------------------------------------------------------------
(* C11 *)

\* The HKTUnsupportedFeature diagnostics reported at position p for feature f
\* with because_nested = b
FeatureAt(p, f, b) ==
    LET IsIt(d) ==
            /\ d.kind = "HKTUnsupportedFeature"
            /\ d.pos = p
            /\ d.feature = f
            /\ d.because_nested = b
    IN  SelectSeq(errs, IsIt)

\* The features of check_tparam a declaration has
PresentFeatures(tp) ==
    (IF Len(tp.constraints) > 0 THEN {"FtConstraints"} ELSE {})
      \cup (IF tp.reified # "Erased" THEN {"FtReification"} ELSE {})
      \cup (IF Len(tp.user_attributes) > 0 THEN {"FtUserAttrs"} ELSE {})
      \cup (IF tp.variance # "Invariant" THEN {"FtVariance"} ELSE {})

FourFeatures == {"FtConstraints", "FtReification", "FtUserAttrs", "FtVariance"}

\* C11: for every declaration of the list tree a hook has processed and each
\* of the four features: if the feature is present, exactly one
\* HKTUnsupportedFeature {feature, because_nested = true} iff the declaration
\* was checked with nested = true (else none) and exactly one
\* HKTUnsupportedFeature {feature, because_nested = false} iff it is
\* higher-kinded (else none), each naming the declaration; if the feature is
\* absent, none.  So a nested higher-kinded declaration has two per present
\* feature and a top-level concrete one has none.
C11_FeatureDiagnostics ==
    TparamHookDone =>
        \A x \in Decls(elem.tparams, FALSE) : \A f \in FourFeatures :
            LET hk == Len(x.tp.parameters) > 0
                present == f \in PresentFeatures(x.tp)
                n == FeatureAt(x.tp.pos, f, TRUE)
                h == FeatureAt(x.tp.pos, f, FALSE)
            IN  /\ Len(n) = (IF present /\ x.nested THEN 1 ELSE 0)
                /\ Len(h) = (IF present /\ hk THEN 1 ELSE 0)
                /\ \A k \in 1..Len(n) : n[k].var_name = x.tp.name
                /\ \A k \in 1..Len(h) : h[k].var_name = x.tp.name
                /\ (present /\ x.nested /\ hk) => Len(n) + Len(h) = 2
                /\ (~x.nested /\ ~hk) => Len(n) + Len(h) = 0

\* A hook has returned whose list nests a higher-kinded declaration with
\* constraints and a variance but erased and without attributes: four
\* diagnostics name it, two for each of the two features
C11_Witness ==
    /\ TparamHookDone
    /\ \E x \in Decls(elem.tparams, FALSE) :
          /\ x.nested
          /\ Len(x.tp.parameters) > 0
          /\ PresentFeatures(x.tp) = {"FtConstraints", "FtVariance"}
          /\ Len(SelectSeq(errs, LAMBDA d : d.kind = "HKTUnsupportedFeature"
                                             /\ d.pos = x.tp.pos)) = 4

----------------------------------------------------------------------------
(* C12 *)

\* How often the running hook has done op on the declaration at position p
Times(op, p) ==
    Cardinality({ k \in 1..Len(trace) : trace[k].op = op /\ trace[k].pos = p })

\* The ShadowedTparam and TparamNonShadowingReuse diagnostics at position p
ShadowAt(p) ==
    LET IsShadow(d) ==
            /\ d.kind \in {"ShadowedTparam", "TparamNonShadowingReuse"}
            /\ d.pos = p
    IN  SelectSeq(errs, IsShadow)

\* C12: while a hook processes a list tree and when it has returned, every
\* declaration of the tree has been bound at most once and checked at most
\* once, and the diagnostics at its position contain at most one of
\* ShadowedTparam / TparamNonShadowingReuse, at most one naming diagnostic and
\* at most one HKTUnsupportedFeature for each feature and each value of
\* because_nested; when the hook has returned every declaration has been
\* checked exactly once and every non-wildcard one bound exactly once.
C12_OncePerDeclaration ==
    (pc # "idle" /\ elem.hook \in TparamHooks) =>
        \A x \in Decls(elem.tparams, FALSE) :
            LET p == x.tp.pos
            IN  /\ Times("bind", p) <= 1
                /\ Times("check", p) <= 1
                /\ Len(ShadowAt(p)) <= 1
                /\ Len(NamingAt(p)) <= 1
                /\ \A f \in FourFeatures : \A b \in BOOLEAN :
                       Len(FeatureAt(p, f, b)) <= 1
                /\ pc = "done" =>
                       /\ Times("check", p) = 1
                       /\ x.tp.name # <<"_">> => Times("bind", p) = 1

\* A hook has returned whose list nests a higher-kinded declaration with
\* features that shadows another one: its position has one ShadowedTparam and
\* four HKTUnsupportedFeature; another declaration has a naming diagnostic
C12_Witness ==
    /\ TparamHookDone
    /\ \E x \in Decls(elem.tparams, FALSE) :
          /\ x.nested
          /\ Len(x.tp.parameters) > 0
          /\ Len(ShadowAt(x.tp.pos)) = 1
          /\ Cardinality({ <<f, b>> \in FourFeatures \X BOOLEAN :
                              Len(FeatureAt(x.tp.pos, f, b)) = 1 }) = 4
    /\ \E y \in Decls(elem.tparams, FALSE) : Len(NamingAt(y.tp.pos)) = 1

----------------------------------------------------------------------------
(* C13 *)

\* The interface validator has returned from an interface
InterfaceDone == pc = "done" /\ elem.hook = "interface" /\ elem.class.kind = "Cinterface"

\* The diagnostics of kind k, in the order of the vector
OfKind(k) == SelectSeq(errs, LAMBDA d : d.kind = k)

\* The least element of a non-empty set of numbers
Least(S) == CHOOSE m \in S : \A o \in S : m <= o

\* C13: for an interface, InterfaceWithMemberVariable is reported once if some
\* member variable is not static and not at all otherwise, with the position
\* of the first such variable in declaration order; and
\* InterfaceWithStaticMemberVariable once if some member variable is static and
\* not at all otherwise, with the position of the first static variable;
\* whatever the order of static and non-static variables and wherever the scan
\* stops.
C13_FirstVariableOfEachKind ==
    InterfaceDone =>
        LET vs == elem.class.vars
            inst == { k \in 1..Len(vs) : ~vs[k].is_static }
            stat == { k \in 1..Len(vs) : vs[k].is_static }
        IN  /\ OfKind("InterfaceWithMemberVariable") =
                   (IF inst = {} THEN <<>>
                    ELSE <<[kind |-> "InterfaceWithMemberVariable",
                            pos |-> vs[Least(inst)].pos]>>)
            /\ OfKind("InterfaceWithStaticMemberVariable") =
                   (IF stat = {} THEN <<>>
                    ELSE <<[kind |-> "InterfaceWithStaticMemberVariable",
                            pos |-> vs[Least(stat)].pos]>>)

\* An interface whose variables are static, not static, not static: the scan
\* has found both kinds before the last variable and both are reported
C13_Witness ==
    /\ InterfaceDone
    /\ Len(elem.class.vars) = 3
    /\ elem.class.vars[1].is_static
    /\ ~elem.class.vars[2].is_static
    /\ ~elem.class.vars[3].is_static
    /\ Len(OfKind("InterfaceWithMemberVariable")) = 1
    /\ Len(OfKind("InterfaceWithStaticMemberVariable")) = 1

----------------------------------------------------------------------------
(* C14 *)

\* C14: for an interface, the InterfaceUsesTrait diagnostics are one per
\* trait-use clause, with the clauses' positions in their order, and the
\* AbstractBody diagnostics are one per method with a non-empty body, with
\* those methods' name positions in their order; a method with an empty body
\* has none.
C14_UsesAndBodies ==
    InterfaceDone =>
        LET us == elem.class.uses
            ms == elem.class.methods
            bodied == SelectSeq(ms, LAMBDA m : Len(m.body) > 0)
        IN  /\ OfKind("InterfaceUsesTrait") =
                   [k \in 1..Len(us) |-> [kind |-> "InterfaceUsesTrait", pos |-> us[k].pos]]
            /\ OfKind("AbstractBody") =
                   [k \in 1..Len(bodied) |-> [kind |-> "AbstractBody", pos |-> bodied[k].pos]]
            /\ \A k \in 1..Len(ms) :
                   Len(ms[k].body) = 0 =>
                       \A j \in 1..Len(errs) :
                           ~(errs[j].kind = "AbstractBody" /\ errs[j].pos = ms[k].pos)

\* An interface with two trait-use clauses, a method without body and a method
\* with one: three diagnostics
C14_Witness ==
    /\ InterfaceDone
    /\ Len(elem.class.uses) = 2
    /\ Len(elem.class.methods) = 2
    /\ elem.class.methods[1].body = <<>>
    /\ elem.class.methods[2].body # <<>>
    /\ Len(OfKind("InterfaceUsesTrait")) = 2
    /\ Len(OfKind("AbstractBody")) = 1

----------------------------------------------------------------------------
(* C15 *)

\* C15: for a class-like declaration that is not an interface the interface
\* validator leaves the vector as it received it.
C15_OnlyInterfaces ==
    (pc = "done" /\ elem.hook = "interface" /\ elem.class.kind # "Cinterface") =>
        errs = errs0

\* The validator has returned from a trait with trait-use clauses, variables
\* of both kinds and a method with a body, and has reported nothing
C15_Witness ==
    /\ pc = "done"
    /\ elem.hook = "interface"
    /\ elem.class.kind = "Ctrait"
    /\ Len(elem.class.uses) > 0
    /\ \E k \in 1..Len(elem.class.vars) : elem.class.vars[k].is_static
    /\ \E k \in 1..Len(elem.class.vars) : ~elem.class.vars[k].is_static
    /\ \E k \in 1..Len(elem.class.methods) : elem.class.methods[k].body # <<>>
    /\ errs = <<>>

----------------------------------------------------------------------------
(* C16 *)

\* a is a prefix of b
IsPrefix(a, b) == Len(a) <= Len(b) /\ SubSeq(b, 1, Len(a)) = a

\* C16: for every hook of both validators and every content of the vector on
\* entry: every step of a hook leaves what the vector held before the step as
\* a prefix of what it holds after, so that from the entry of the hook to its
\* return the content on entry is a prefix of the vector; and a hook does not
\* change its argument: besides the vector, its output is the ControlFlow it
\* returns.
C16_AppendOnly ==
    [][ /\ pc' # "idle" => IsPrefix(errs0', errs')
        /\ Running => (OnlyAppended /\ errs0' = errs0 /\ elem' = elem)
        /\ pc' = "done" => ret' \in {"Continue", "Break"}
      ]_vars

\* A hook of the type-parameter validator has returned with a vector that
\* held two diagnostics on entry and holds at least two more now
C16_Witness ==
    /\ TparamHookDone
    /\ Len(errs0) = 2
    /\ Len(errs) >= 4

----------------------------------------------------------------------------
(* C17 *)

\* The number of steps a call check_tparams(tparams, nested) takes, and the
\* number its second loop takes from parameter i on
RECURSIVE ListWork(_, _), ChecksWork(_, _)
ListWork(tparams, nested) ==
    IF tparams = <<>> THEN 0
    ELSE Len(tparams) + ChecksWork(tparams, 1) + 1
           + (IF nested THEN Len(tparams) + 1 ELSE 0)

ChecksWork(tparams, i) ==
    IF i > Len(tparams) THEN 0
    ELSE 1 + ListWork(tparams[i].parameters, TRUE) + ChecksWork(tparams, i + 1)

\* The number of steps the activation f has left, its nested calls included
FrameWork(f) ==
    LET n == Len(f.tparams)
        after == IF f.nested THEN n + 1 ELSE 0
    IN  CASE f.at = "bind" -> (n - f.i + 1) + ChecksWork(f.tparams, 1) + 1 + after
          [] f.at = "check" -> ChecksWork(f.tparams, f.i) + 1 + after
          [] f.at = "unbind" -> (n - f.i + 1) + 1
          [] f.at = "ret" -> 1

RECURSIVE StackWork(_)
StackWork(st) == IF st = <<>> THEN 0 ELSE FrameWork(Head(st)) + StackWork(Tail(st))

\* The number of steps the running hook has left until it has returned; it
\* depends on the list tree only, not on the table or the vector
StepsLeft == IF Running THEN 1 + StackWork(stack) ELSE 0

\* A step of the running hook
HookStep == BindTparam \/ CheckTparam \/ CheckDone \/ UnbindTparam \/ Return \/ HookReturn

\* C17: in every reachable state a running hook can take a step, every step
\* it takes lessens by one the finite number of steps the list tree leaves it
\* (whatever the vector holds), and when it has returned every declaration of
\* the tree, at every depth, has been checked once and every non-wildcard one
\* bound once: no diagnostic stops the first loop, the second loop or the
\* descent into a nested list.
C17_WholeTreeProcessed ==
    /\ [](Running => ENABLED HookStep)
    /\ [][Running => StepsLeft' = StepsLeft - 1]_vars
    /\ [](TparamHookDone =>
             \A x \in Decls(elem.tparams, FALSE) :
                 /\ Times("check", x.tp.pos) = 1
                 /\ x.tp.name # <<"_">> => Times("bind", x.tp.pos) = 1)

\* A hook has returned that reported a diagnostic for a higher-kinded
\* declaration and went on to check the declaration nested in it, which it
\* reported too
C17_Witness ==
    /\ TparamHookDone
    /\ \E x \in Decls(elem.tparams, FALSE) :
          /\ x.nested
          /\ Times("check", x.tp.pos) = 1
          /\ \E j, k \in 1..Len(errs) :
                j < k /\ errs[j].pos < x.tp.pos /\ errs[k].pos = x.tp.pos

----------------------------------------------------------------------------
(* C18 *)

\* C18: whenever a hook of the type-parameter validator (class, typedef, fun,
\* method, where-constraint hint, hint) has returned, it has returned
\* ControlFlow::Continue, whatever the table, the flags and its argument were
\* and whether or not it reported diagnostics; Break is never returned.
C18_AlwaysContinue ==
    /\ ret # "Break"
    /\ (pc = "done"
        /\ elem.hook \in {"class", "typedef", "fun", "method", "where", "hint"}) =>
           ret = "Continue"

\* A declaration hook has returned Continue after reporting two or more
\* diagnostics
C18_Witness ==
    /\ TparamHookDone
    /\ Len(errs) >= 2
    /\ ret = "Continue"

----------------------------------------------------------------------------
(* C19 *)

\* C19: while an activation of check_tparams with nested = true is in its
\* second loop (its first loop has ended, its third has not begun), also
\* while and after the nested lists of its members are processed, every
\* non-wildcard name of its list has an entry with in_scope = true; and a step
\* of the third loop of an activation never leaves in_scope = false on a name
\* that the list of an enclosing activation declares.
C19_NestedScopeVisible ==
    [][ /\ \A k \in 1..Len(stack') :
              (stack'[k].nested /\ stack'[k].at = "check") =>
                  \A n \in TopNames(stack'[k].tparams) :
                      n \in DOMAIN tparam_info' /\ tparam_info'[n].in_scope
        /\ (Running /\ stack # <<>> /\ Top.at = "unbind" /\ Cur.name # <<"_">>) =>
              \A k \in 2..Len(stack) :
                  Cur.name \in TopNames(stack[k].tparams) =>
                      tparam_info'[Cur.name].in_scope
      ]_vars

----------------------------------------------------------------------------
(* C20 *)

\* Every non-empty list of a list tree: the list itself and the nested lists
\* of its declarations, at every depth
RECURSIVE ListsIn(_)
ListsIn(tparams) ==
    IF tparams = <<>> THEN {}
    ELSE {tparams} \cup UNION { ListsIn(tparams[k].parameters) : k \in 1..Len(tparams) }

\* The positions of the declarations of a list tree
PosIn(tparams) == { x.tp.pos : x \in Decls(tparams, FALSE) }

\* The positions of the members of a list
Members(l) == { l[k].pos : k \in 1..Len(l) }

\* The positions of the declarations nested in the members of a list
Below(l) == UNION { PosIn(l[k].parameters) : k \in 1..Len(l) }

\* The places of the trace where op was done on the declaration at position p
When(op, p) == { q \in 1..Len(trace) : trace[q].op = op /\ trace[q].pos = p }

\* The places of the vector with a diagnostic at position p of a kind in ks
Where(ks, p) == { q \in 1..Len(errs) : errs[q].pos = p /\ errs[q].kind \in ks }

ShadowKinds == {"ShadowedTparam", "TparamNonShadowingReuse"}

CheckKinds ==
    {"ThisReserved", "WildcardHintDisallowed", "StartWithT", "HKTUnsupportedFeature"}

\* Within every list of the tree a hook processes: (1) nothing is checked in
\* the list and nothing is done on a declaration nested in it before all its
\* non-wildcard members are bound; (2) the members are checked from left to
\* right; (3) the diagnostics of a member precede those of the declarations
\* nested in it; (4) the ShadowedTparam / TparamNonShadowingReuse diagnostics
\* of the members precede the naming and feature diagnostics of the members.
C20_Order ==
    (pc # "idle" /\ elem.hook \in TparamHooks) =>
        \A l \in ListsIn(elem.tparams) :
            /\ \A q \in 1..Len(trace) :
                   (\/ (trace[q].op = "check" /\ trace[q].pos \in Members(l))
                    \/ trace[q].pos \in Below(l)) =>
                       \A k \in 1..Len(l) :
                           l[k].name # <<"_">> =>
                               \E b \in When("bind", l[k].pos) : b < q
            /\ \A i, j \in 1..Len(l) :
                   i < j =>
                       \A q \in When("check", l[j].pos) :
                           \E r \in When("check", l[i].pos) : r < q
            /\ \A k \in 1..Len(l) :
                   \A q \in Where(ShadowKinds \cup CheckKinds, l[k].pos) :
                       \A p \in PosIn(l[k].parameters) :
                           \A r \in Where(ShadowKinds \cup CheckKinds, p) : q < r
            /\ \A i, j \in 1..Len(l) :
                   \A q \in Where(ShadowKinds, l[i].pos) :
                       \A r \in Where(CheckKinds, l[j].pos) : q < r

\* When the hook has returned, every declaration nested directly in a member
\* of a list and named like another member of that list (declared before or
\* after the first) has a ShadowedTparam diagnostic.
C20_SiblingShadowed ==
    TparamHookDone =>
        \A l \in ListsIn(elem.tparams) :
            \A i, j \in 1..Len(l) :
                i # j =>
                    \A k \in 1..Len(l[i].parameters) :
                        LET n == l[i].parameters[k]
                        IN  (n.name = l[j].name /\ n.name # <<"_">>) =>
                                Where({"ShadowedTparam"}, n.pos) # {}

\* C20: within one call of check_tparams all members of the list are bound
\* before any member is checked or any nested list is processed, the members
\* are checked from left to right, each member's diagnostics precede those of
\* its nested list, all shadow/reuse diagnostics of a list precede the naming
\* and feature diagnostics of that list; and a nested parameter whose name
\* equals a sibling of its parent reports ShadowedTparam, also when the sibling
\* is declared after the parent.
C20_BindBeforeCheck ==
    C20_Order /\ C20_SiblingShadowed

----------------------------------------------------------------------------
(* C21 *)

\* The name of the declaration at position p of the running hook's list tree
NameAt(p) == (CHOOSE x \in Decls(elem.tparams, FALSE) : x.tp.pos = p).tp.name

\* The places of the trace where a declaration named n was bound
BindsOf(n) ==
    { q \in 1..Len(trace) : trace[q].op = "bind" /\ NameAt(trace[q].pos) = n }

\* The greatest element of a non-empty set of numbers
Greatest(S) == CHOOSE m \in S : \A o \in S : o <= m

\* C21: a bind of a non-wildcard parameter, whether it reports
\* ShadowedTparam, TparamNonShadowingReuse or nothing, leaves the entry of
\* the name as (the parameter's position, in_scope = true, Higher iff its
\* nested list is not empty, else Concrete); and the prev_pos of a
\* ShadowedTparam it reports is the position of the latest earlier binding of
\* the name by the hook, not of the first.
C21_BindOverwrites ==
    [][ (AtBind /\ Cur.name # <<"_">>) =>
            /\ tparam_info'[Cur.name] =
                   [pos |-> Cur.pos, in_scope |-> TRUE,
                    kind |-> IF Len(Cur.parameters) > 0 THEN "Higher" ELSE "Concrete"]
            /\ \A k \in 1..Len(Appended) :
                   Appended[k].kind = "ShadowedTparam" =>
                       /\ BindsOf(Cur.name) # {}
                       /\ Appended[k].prev_pos = trace[Greatest(BindsOf(Cur.name))].pos
      ]_vars

\* The last bind reported ShadowedTparam for a name the hook had bound twice
\* before, and prev_pos is the position of the second of those bindings
C21_Witness ==
    /\ Running
    /\ errs # <<>>
    /\ trace # <<>>
    /\ LET d == errs[Len(errs)]
           last == trace[Len(trace)]
       IN  /\ d.kind = "ShadowedTparam"
           /\ last.op = "bind"
           /\ last.pos = d.pos
           /\ Cardinality(BindsOf(d.tparam_name)) = 3
           /\ d.prev_pos = trace[Greatest(BindsOf(d.tparam_name) \ {Len(trace)})].pos
           /\ d.prev_pos # trace[Least(BindsOf(d.tparam_name))].pos

----------------------------------------------------------------------------
(* C22 *)

\* C22: both flags are unset on a new pass; no step of any hook unsets a
\* flag (the class and typedef hooks clear the table, not the flags);
\* IN_METHOD_OR_FUN becomes set only by on_ty_fun__top_down and
\* on_ty_method__top_down, which set it and leave IN_WHERE_CONSTRAINT as it
\* was; IN_WHERE_CONSTRAINT becomes set only by
\* on_ty_where_constraint_hint_top_down, which sets it and leaves
\* IN_METHOD_OR_FUN as it was.
C22_FlagsMonotone ==
    /\ flags = {}
    /\ [][ LET funReturns == pc \in {"fun", "method"} /\ pc' = "done"
               whereRuns == pc = "idle" /\ elem'.hook = "where"
           IN  /\ flags \subseteq flags'
               /\ "IN_METHOD_OR_FUN" \in flags' \ flags => funReturns
               /\ "IN_WHERE_CONSTRAINT" \in flags' \ flags => whereRuns
               /\ funReturns => flags' = flags \cup {"IN_METHOD_OR_FUN"}
               /\ whereRuns => flags' = flags \cup {"IN_WHERE_CONSTRAINT"}
         ]_vars

\* on_ty_class__top_down has returned on a pass that has both flags set, and
\* both are still set
C22_Witness ==
    /\ pc = "done"
    /\ elem.hook = "class"
    /\ flags = {"IN_METHOD_OR_FUN", "IN_WHERE_CONSTRAINT"}

----------------------------------------------------------------------------
(* C23 *)

\* What check_tparams leaves when it finds an empty table: a function of the
\* parameter list alone
FromCleared(tparams) == check_tparams([info |-> <<>>, errs |-> <<>>], tparams, FALSE)

\* C23: when on_ty_class__top_down, on_ty_typedef_top_down or
\* on_ty_fun__top_down has returned, the diagnostics it appended and the table
\* it leaves are those that its parameter list yields from an empty table,
\* whatever the table and the flags were when it was entered: two passes that
\* differ in their earlier hooks only get the same diagnostics and the same
\* table.
C23_ClearingHooksIndependent ==
    (pc = "done" /\ elem.hook \in ClearingHooks) =>
        /\ SubSeq(errs, Len(errs0) + 1, Len(errs)) = FromCleared(elem.tparams).errs
        /\ tparam_info = FromCleared(elem.tparams).info

\* on_ty_class__top_down has returned with diagnostics on a pass whose
\* earlier hooks have set both flags
C23_Witness ==
    /\ pc = "done"
    /\ elem.hook = "class"
    /\ Len(errs) >= 2
    /\ flags = {"IN_METHOD_OR_FUN", "IN_WHERE_CONSTRAINT"}

\* on_ty_method__top_down has returned with diagnostics that differ from those
\* its list yields from an empty table
C23_MethodDepends ==
    /\ pc = "done"
    /\ elem.hook = "method"
    /\ errs # FromCleared(elem.tparams).errs

====
